---- MODULE Spec2Model ----
(***************************************************************************)
(* Sequential-thinking core of chroma-mcp (ChromaConnector in              *)
(* src/src/chroma_mcp/server.py): thoughts are stored as documents of the  *)
(* Chroma collection "sequential_thinking" and read back by the history    *)
(* and branch operations.                                                  *)
(***************************************************************************)
EXTENDS Integers, Sequences, FiniteSets, TLC

VARIABLES
    exists,   \* TRUE iff the collection "sequential_thinking" exists in the store
    docs,     \* the collection's documents, in insertion order: [id, document, metadata]
    clock,    \* int(time.time()), in seconds
    res,      \* the last call of a connector method: what it returned or raised
    procs     \* the sequential_thinking calls in progress, one per concurrent request

vars == <<exists, docs, clock, res, procs>>

----------------------------------------------------------------------------
(* Bounds of the model *)

MaxDocs == 2      \* documents the collection may hold
MaxNum == 3       \* largest thought number / total submitted
MaxClock == 2     \* last clock second

----------------------------------------------------------------------------
(* Python values *)

\* None in a slot that otherwise holds a string / an integer
None == "<None>"
NoneInt == -1

\* the empty dict
EmptyDict == [k \in {} |-> 0]

\* {k: v} if present, else {}
Opt(present, k, v) == IF present THEN (k :> v) ELSE EmptyDict

\* k in d
Has(d, k) == k \in DOMAIN d

\* d.get(k) for a string-valued / integer-valued key, and d.get(k, default)
GetStr(d, k) == IF Has(d, k) THEN d[k] ELSE None
GetInt(d, k) == IF Has(d, k) THEN d[k] ELSE NoneInt
GetOr(d, k, default) == IF Has(d, k) THEN d[k] ELSE default

\* truth value of a str-or-None
Truthy(s) == s # None /\ s # ""

\* x or 0, for an int-or-None
OrZero(n) == IF n = NoneInt THEN 0 ELSE n

\* str(n)
Str(n) == ToString(n)

----------------------------------------------------------------------------
(* list.sort(key = ...): a stable sort; a key is a tuple of integers,        *)
(* compared lexicographically as Python compares tuples                     *)

RECURSIVE TupleLess(_, _)
TupleLess(a, b) ==
    IF a = <<>> \/ b = <<>> THEN a = <<>> /\ b # <<>>
    ELSE IF Head(a) # Head(b) THEN Head(a) < Head(b)
    ELSE TupleLess(Tail(a), Tail(b))

RECURSIVE InsertStable(_, _)
InsertStable(x, sorted) ==
    IF sorted = <<>> THEN <<x>>
    ELSE IF TupleLess(x.key, Head(sorted).key) THEN <<x>> \o sorted
    ELSE <<Head(sorted)>> \o InsertStable(x, Tail(sorted))

RECURSIVE SortPairs(_)
SortPairs(pairs) ==
    IF pairs = <<>> THEN <<>>
    ELSE InsertStable(pairs[Len(pairs)], SortPairs(SubSeq(pairs, 1, Len(pairs) - 1)))

\* list sorted by keys, where keys[i] is the key of list[i]
SortedBy(list, keys) ==
    LET pairs == [i \in 1..Len(list) |-> [key |-> keys[i], val |-> list[i]]]
        sorted == SortPairs(pairs)
    IN  [i \in 1..Len(list) |-> sorted[i].val]

----------------------------------------------------------------------------
(* The document store (chromadb collection) as the connector uses it *)

CollectionName == "sequential_thinking"

Ids(coll) == {coll[i].id : i \in 1..Len(coll)}

\* collection.add(ids=[id], documents=[document], metadatas=[metadata]): a
\* record whose id is already in the collection is never replaced; the add is
\* ignored without an error, or rejected with one (chromadb documents both)
DuplicateOutcomes == {"ignored", "rejected"}

CollectionAdd(coll, id, document, metadata) ==
    IF id \in Ids(coll) THEN coll
    ELSE Append(coll, [id |-> id, document |-> document, metadata |-> metadata])

\* validate_where of collection.get / collection.query: a where dict holds
\* exactly one key (several conditions need an explicit $and)
ValidWhere(where) == Cardinality(DOMAIN where) = 1

\* Matches, with every record matching every filter
MatchesAny(doc, where) == TRUE

\* a record matches a where filter: it has each key, with the filter's value
Matches(doc, where) ==
    \A k \in DOMAIN where : Has(doc.metadata, k) /\ doc.metadata[k] = where[k]

\* collection.get(where=where, include=["documents", "metadatas"]):
\* the matching records, in insertion order
CollectionGet(coll, where) == SelectSeq(coll, LAMBDA d : Matches(d, where))

----------------------------------------------------------------------------
(* sequential_thinking *)

RECURSIVE JoinInts(_)
JoinInts(list) ==
    IF list = <<>> THEN ""
    ELSE IF Len(list) = 1 THEN Str(list[1])
    ELSE Str(list[1]) \o ", " \o JoinInts(Tail(list))

\* json.dumps of a list of integers
JsonDumps(list) == "[" \o JoinInts(list) \o "]"

\* the document id of a thought; revision is the truth value of is_revision
DocId(session_id, thought_number, branch_id, revision, now) ==
    session_id \o "_" \o Str(thought_number)
        \o (IF Truthy(branch_id) THEN "_branch_" \o branch_id ELSE "")
        \o (IF revision THEN "_rev_" \o Str(now) ELSE "")

\* session_id / branch_id after the defaults: uuid4 and branch8 are the values
\* uuid.uuid4() yields in this call
SessionOf(inp, uuid4) == IF Has(inp, "session_id") THEN inp.session_id ELSE uuid4

BranchOf(inp, branch8) ==
    IF Has(inp, "branch_from_thought") /\ ~Has(inp, "branch_id") THEN branch8
    ELSE GetStr(inp, "branch_id")

Metadata(inp, session_id, branch_id, now) ==
    [session_id |-> session_id,
     thought_number |-> inp.thought_number,
     total_thoughts |-> inp.total_thoughts,
     next_thought_needed |-> inp.next_thought_needed,
     timestamp |-> now,
     session_type |-> "sequential_thinking"]
    @@ Opt(Has(inp, "is_revision"), "is_revision", GetOr(inp, "is_revision", FALSE))
    @@ Opt(Has(inp, "revises_thought"), "revises_thought", GetInt(inp, "revises_thought"))
    @@ Opt(Has(inp, "branch_from_thought"), "branch_from_thought", GetInt(inp, "branch_from_thought"))
    @@ Opt(branch_id # None, "branch_id", branch_id)
    @@ Opt(Has(inp, "session_summary"), "session_summary", GetStr(inp, "session_summary"))
    @@ Opt(Has(inp, "key_thoughts"), "key_thoughts", JsonDumps(GetOr(inp, "key_thoughts", <<>>)))
    @@ Opt(Has(inp, "needs_more_thoughts"), "needs_more_thoughts", GetOr(inp, "needs_more_thoughts", FALSE))

\* the Python type of the value that Metadata stores under a key; a list of
\* key thoughts is stored as its json.dumps string, and the reads return the
\* metadata as stored
PyType(k) ==
    IF k \in {"thought_number", "total_thoughts", "timestamp", "revises_thought",
              "branch_from_thought"} THEN "int"
    ELSE IF k \in {"next_thought_needed", "is_revision", "needs_more_thoughts"} THEN "bool"
    ELSE "str"

----------------------------------------------------------------------------
(* get_thought_history and get_thought_branches: has says whether            *)
(* client.get_collection finds the collection, coll is its content           *)

Raised(message) == [error |-> message]

\* GetCollection, creating the collection when it is missing
GetOrCreateCollection(has) == TRUE

\* the collection after client.get_collection(name) of a read: found or not,
\* it is left as it is (a read returns when it is missing)
GetCollection(has) == has

IsError(out) == Has(out, "error")

\* one entry of the thoughts list of get_thought_history
HistoryThought(doc) ==
    [document_id |-> doc.id,
     content |-> doc.document,
     thought_number |-> GetInt(doc.metadata, "thought_number"),
     timestamp |-> GetInt(doc.metadata, "timestamp"),
     is_revision |-> GetOr(doc.metadata, "is_revision", FALSE),
     branch_id |-> GetStr(doc.metadata, "branch_id"),
     metadata |-> doc.metadata]

\* Skipped, taking the presence of the key for a branch
SkippedByKey(include_branches, metadata) ==
    ~include_branches /\ Has(metadata, "branch_id")

\* the test that leaves a branch thought out of the history
Skipped(include_branches, metadata) ==
    ~include_branches /\ Truthy(GetStr(metadata, "branch_id"))

\* HistoryKey without the thought number
HistoryKeyByTime(t) == <<OrZero(t.timestamp)>>

\* the sort key of get_thought_history
HistoryKey(t) == <<OrZero(t.thought_number), OrZero(t.timestamp)>>

get_thought_history(has, coll, session_id, include_branches, sort_by_number) ==
    IF ~has THEN [thoughts |-> <<>>, message |-> "No sequential thinking collection found"]
    ELSE
    LET results == CollectionGet(coll, [session_id |-> session_id])
        kept == SelectSeq(results, LAMBDA d : ~Skipped(include_branches, d.metadata))
        listed == [i \in 1..Len(kept) |-> HistoryThought(kept[i])]
        thoughts == IF sort_by_number
                    THEN SortedBy(listed, [i \in 1..Len(listed) |-> HistoryKey(listed[i])])
                    ELSE listed
    IN  IF results = <<>>
        THEN [thoughts |-> <<>>, session_id |-> session_id,
              message |-> "No thoughts found for this session"]
        ELSE [session_id |-> session_id,
              thoughts |-> thoughts,
              total_thoughts |-> Len(thoughts),
              has_branches |-> \E i \in 1..Len(thoughts) : Truthy(thoughts[i].branch_id)]

\* one entry of the thoughts list of a branch
BranchThought(doc) ==
    [document_id |-> doc.id,
     content |-> doc.document,
     thought_number |-> GetInt(doc.metadata, "thought_number"),
     timestamp |-> GetInt(doc.metadata, "timestamp"),
     metadata |-> doc.metadata]

BranchKey(t) == <<OrZero(t.thought_number)>>

\* the where filter of get_thought_branches
BranchWhere(session_id, thought_number) ==
    [session_id |-> session_id]
        @@ Opt(thought_number # NoneInt, "branch_from_thought", thought_number)

\* the branch ids of the results, in the order a dict keeps its keys: that of
\* their first record
RECURSIVE BranchOrder(_)
BranchOrder(results) ==
    IF results = <<>> THEN <<>>
    ELSE LET before == BranchOrder(SubSeq(results, 1, Len(results) - 1))
             branch_id == GetStr(results[Len(results)].metadata, "branch_id")
         IN  IF Truthy(branch_id) /\ \A i \in 1..Len(before) : before[i] # branch_id
             THEN Append(before, branch_id)
             ELSE before

\* BranchGroup, taking branch_from_thought from the last record of the branch
BranchGroupOfLast(results, branch_id) ==
    LET own == SelectSeq(results, LAMBDA d : GetStr(d.metadata, "branch_id") = branch_id)
        listed == [i \in 1..Len(own) |-> BranchThought(own[i])]
    IN  [branch_id |-> branch_id,
         branch_from_thought |-> GetInt(own[Len(own)].metadata, "branch_from_thought"),
         thoughts |-> SortedBy(listed, [i \in 1..Len(listed) |-> BranchKey(listed[i])])]

\* branches[branch_id] after the grouping loop and the sort
BranchGroup(results, branch_id) ==
    LET own == SelectSeq(results, LAMBDA d : GetStr(d.metadata, "branch_id") = branch_id)
        listed == [i \in 1..Len(own) |-> BranchThought(own[i])]
    IN  [branch_id |-> branch_id,
         branch_from_thought |-> GetInt(own[1].metadata, "branch_from_thought"),
         thoughts |-> SortedBy(listed, [i \in 1..Len(listed) |-> BranchKey(listed[i])])]

get_thought_branches(has, coll, session_id, thought_number) ==
    IF ~has THEN [branches |-> <<>>, message |-> "No sequential thinking collection found"]
    ELSE IF ~ValidWhere(BranchWhere(session_id, thought_number))
    THEN Raised("Failed to get thought branches")
    ELSE
    LET results == CollectionGet(coll, BranchWhere(session_id, thought_number))
        order == BranchOrder(results)
    IN  [session_id |-> session_id,
         filter_thought |-> thought_number,
         branches |-> [i \in 1..Len(order) |-> BranchGroup(results, order[i])],
         total_branches |-> Len(order)]

----------------------------------------------------------------------------
(* get_similar_sessions *)

Min(a, b) == IF a < b THEN a ELSE b
Max(a, b) == IF a > b THEN a ELSE b

\* list[:n]
Slice(list, n) ==
    IF n >= 0 THEN SubSeq(list, 1, Min(n, Len(list)))
    ELSE SubSeq(list, 1, Max(Len(list) + n, 0))

\* the where filter of get_similar_sessions; the empty dict is passed as None
SimilarWhere(session_type) == Opt(Truthy(session_type), "session_type", session_type)

\* collection.query(query_texts=[query_text], n_results=n_results, where=where):
\* one list of hits per query text, each the n_results matching records
\* nearest to it; distance[c] is the distance of a document c from the query
\* text, in hundredths
CollectionQuery(coll, where, n_results, distance) ==
    LET matching == CollectionGet(coll, where)
        nearest == SortedBy(matching,
                            [i \in 1..Len(matching) |-> <<distance[matching[i].document]>>])
    IN  <<Slice(nearest, Max(n_results, 0))>>

\* one entry of the thoughts list of a session
SimilarThought(doc) ==
    [document_id |-> doc.id,
     thought_number |-> GetInt(doc.metadata, "thought_number"),
     content |-> doc.document,
     metadata |-> doc.metadata]

\* the session ids of the results, in the order a dict keeps its keys
RECURSIVE SessionOrder(_)
SessionOrder(results) ==
    IF results = <<>> THEN <<>>
    ELSE LET before == SessionOrder(SubSeq(results, 1, Len(results) - 1))
             session_id == GetStr(results[Len(results)].metadata, "session_id")
         IN  IF Truthy(session_id) /\ \A i \in 1..Len(before) : before[i] # session_id
             THEN Append(before, session_id)
             ELSE before

\* sessions[session_id] after the grouping loop
SessionEntry(results, session_id) ==
    LET own == SelectSeq(results, LAMBDA d : GetStr(d.metadata, "session_id") = session_id)
    IN  [session_id |-> session_id,
         thoughts |-> [i \in 1..Len(own) |-> SimilarThought(own[i])],
         total_thoughts |-> GetOr(own[1].metadata, "total_thoughts", 0),
         session_type |-> GetOr(own[1].metadata, "session_type", "unknown")]

\* the count filters: a bound of None or 0 does not filter
CountSkipped(session, min_thought_count, max_thought_count) ==
    LET thought_count == Len(session.thoughts)
    IN  \/ OrZero(min_thought_count) # 0 /\ thought_count < min_thought_count
        \/ OrZero(max_thought_count) # 0 /\ thought_count > max_thought_count

\* SimilarKey in ascending order of total_thoughts
SimilarKeyAscending(session) == <<session.total_thoughts>>

\* the sort key of the plain fetch: sort(key=total_thoughts, reverse=True)
SimilarKey(session) == <<0 - session.total_thoughts>>

\* the sessions returned: filtered_sessions[:n_results]
SimilarReturned(filtered_sessions, n_results) == Slice(filtered_sessions, n_results)

get_similar_sessions(has, coll, session_type, min_thought_count, max_thought_count, query_text, n_results, distance) ==
    IF ~has THEN [sessions |-> <<>>, message |-> "No sequential thinking collection found"]
    ELSE IF Truthy(query_text)
    THEN \* results["ids"] and results["metadatas"] of a query hold one list per
         \* query text: the loop takes that list for a metadata dict, and
         \* metadata.get fails on it
         LET results == CollectionQuery(coll, SimilarWhere(session_type), n_results, distance)
         IN  IF Len(results) > 0
             THEN Raised("Failed to get similar sessions")
             ELSE [sessions |-> <<>>, total_found |-> 0]
    ELSE
    LET results == CollectionGet(coll, SimilarWhere(session_type))
        order == SessionOrder(results)
        sessions == [i \in 1..Len(order) |-> SessionEntry(results, order[i])]
        kept == SelectSeq(sessions,
                          LAMBDA x : ~CountSkipped(x, min_thought_count, max_thought_count))
        filtered_sessions == SortedBy(kept, [i \in 1..Len(kept) |-> SimilarKey(kept[i])])
    IN  [sessions |-> SimilarReturned(filtered_sessions, n_results),
         total_found |-> Len(filtered_sessions)]

----------------------------------------------------------------------------
(* continue_thought_chain *)

Suggestions(analysis_type) ==
    IF analysis_type = "continuation"
    THEN <<"Continue developing the main line of reasoning",
           "Address any remaining questions or gaps",
           "Consider practical applications or next steps",
           "Synthesize key insights from previous thoughts">>
    ELSE IF analysis_type = "completion"
    THEN <<"Summarize the key conclusions reached",
           "Identify the most important insights",
           "Note any remaining open questions",
           "Consider the broader implications">>
    ELSE IF analysis_type = "branching"
    THEN <<"Explore an alternative perspective on the topic",
           "Consider a different approach to the problem",
           "Examine potential counterarguments",
           "Investigate a related but distinct aspect">>
    ELSE <<>>

\* ChainHistory with the branches of the session
ChainHistoryWithBranches(has, coll, session_id) ==
    get_thought_history(has, coll, session_id, TRUE, TRUE)

\* the history that is analysed: get_thought_history(session_id, include_branches=False)
ChainHistory(has, coll, session_id) ==
    get_thought_history(has, coll, session_id, FALSE, TRUE)

\* the contents of the model are shorter than the 200 characters that
\* last_thought_content keeps
continue_thought_chain(has, coll, session_id, analysis_type) ==
    LET history == ChainHistory(has, coll, session_id)
        last_thought == history.thoughts[Len(history.thoughts)]
    IN  IF history.thoughts = <<>>
        THEN [analysis |-> "No thoughts found for this session", suggestions |-> <<>>]
        ELSE [session_id |-> session_id,
              last_thought_number |-> last_thought.thought_number,
              last_thought_content |-> last_thought.content,
              analysis_type |-> analysis_type,
              total_thoughts_so_far |-> Len(history.thoughts),
              suggestions |-> Suggestions(analysis_type),
              recommendation |-> "Based on " \o Str(Len(history.thoughts))
                  \o " thoughts in this session, consider " \o analysis_type
                  \o " to further develop your reasoning."]

----------------------------------------------------------------------------
(* update_documents and delete_documents, on the thought collection: args   *)
(* holds ids and the optional lists that are not None                       *)

\* NoIds, taking no list of ids for empty
NoIdsNever(ids) == FALSE

\* not ids
NoIds(ids) == ids = <<>>

\* any([embeddings, metadatas, documents]): a list that is None or empty is false
AnyUpdate(args) ==
    \E k \in {"embeddings", "metadatas", "documents"} : Has(args, k) /\ args[k] # <<>>

\* a list that is given and not empty has the length of ids
LengthsMatch(args) ==
    \A k \in {"embeddings", "metadatas", "documents"} :
        Has(args, k) /\ args[k] # <<>> => Len(args[k]) = Len(args.ids)

\* the position of an id in ids, 0 if it is not there
Position(ids, id) ==
    IF \E i \in 1..Len(ids) : ids[i] = id
    THEN CHOOSE i \in 1..Len(ids) : ids[i] = id
    ELSE 0

\* collection.update(ids, metadatas, documents): the records named are
\* changed, their metadata key by key; an id that is not stored is left out
CollectionUpdate(coll, args) ==
    [i \in 1..Len(coll) |->
        LET at == Position(args.ids, coll[i].id)
        IN  IF at = 0 THEN coll[i]
            ELSE [id |-> coll[i].id,
                  document |-> IF Has(args, "documents") /\ args.documents # <<>>
                               THEN args.documents[at] ELSE coll[i].document,
                  metadata |-> IF Has(args, "metadatas") /\ args.metadatas # <<>>
                               THEN args.metadatas[at] @@ coll[i].metadata
                               ELSE coll[i].metadata]]

\* collection.delete(ids)
CollectionDelete(coll, ids) ==
    SelectSeq(coll, LAMBDA d : Position(ids, d.id) = 0)

\* what update_documents returns or raises
update_documents(has, coll, args) ==
    IF NoIds(args.ids) \/ ~AnyUpdate(args) \/ ~LengthsMatch(args) \/ ~has
    THEN Raised("Failed to update documents")
    ELSE [message |-> "Updated " \o Str(Len(args.ids)) \o " documents in collection '"
                          \o CollectionName \o "'."]

\* what delete_documents returns or raises
delete_documents(has, coll, ids) ==
    IF NoIds(ids) \/ ~has
    THEN Raised("Failed to delete documents")
    ELSE [message |-> "Deleted " \o Str(Len(ids)) \o " documents from collection '"
                          \o CollectionName \o "'."]

----------------------------------------------------------------------------
(* Inputs of the model: the arguments of a sequential_thinking call, as a   *)
(* dict that holds the optional arguments that are not None                 *)

SessionIds == {"a", "b"}
BranchIds == {"x", "y"}
Contents == {"c1", "c2"}
Uuids == {"u1"}
BranchUuids == {"b1"}
Nums == 1..MaxNum

Req(s, n, t, more, c) ==
    [session_id |-> s, thought |-> c, thought_number |-> n,
     total_thoughts |-> t, next_thought_needed |-> more]

\* main-chain thoughts of session "a", the first with either content, and one
\* of session "b"
PlainInputs ==
    {Req("a", 1, MaxNum, TRUE, c) : c \in Contents}
        \cup {Req("a", n, MaxNum, TRUE, "c1") : n \in Nums}
        \cup {Req("b", 1, MaxNum, TRUE, "c1")}

\* a closing thought whose total is below its number
ClosingInputs == {Req("a", MaxNum, 1, FALSE, "c1")}

\* the calls of the specification Spec: main chains
Inputs == PlainInputs \cup ClosingInputs

\* an empty session id, a thought number or a total that is not positive
MalformedInputs ==
    {Req("", 1, MaxNum, TRUE, "c1"), Req("a", 0, MaxNum, TRUE, "c1"),
     Req("a", 1, 0, TRUE, "c1")}

\* no session id: one is generated
AnonymousInputs ==
    {[thought |-> "c1", thought_number |-> 1, total_thoughts |-> MaxNum,
      next_thought_needed |-> TRUE]}

\* the calls of the specification SpecLoose: well-formed and malformed calls
InputsLoose ==
    MalformedInputs \cup AnonymousInputs
        \cup {Req("a", 1, MaxNum, TRUE, "c1"), Req("a", MaxNum, MaxNum, FALSE, "c2")}

\* revisions of thought 1, naming the thought they revise, no thought, a later one
RevisionInputs ==
    {Req("a", 1, MaxNum, TRUE, c) @@ [is_revision |-> TRUE, revises_thought |-> 1] :
        c \in Contents}
    \cup {Req("a", 1, MaxNum, TRUE, "c2") @@ [is_revision |-> TRUE],
          Req("a", 1, MaxNum, TRUE, "c2") @@ [is_revision |-> TRUE, revises_thought |-> MaxNum]}

\* the calls of the specification SpecRevision: a main chain and its revisions
InputsRevision ==
    {Req("a", 1, MaxNum, TRUE, c) : c \in Contents}
        \cup {Req("a", MaxNum, MaxNum, TRUE, "c1")} \cup RevisionInputs

\* branch thoughts: two branches started at thought 1, a branch continued
\* from another parent and without naming one, a branch started without a
\* branch id, an empty branch id, a branch of another session
BranchInputs ==
    {Req("a", 1, MaxNum, TRUE, "c1") @@ [branch_from_thought |-> 1, branch_id |-> b] :
        b \in BranchIds}
    \cup {Req("a", MaxNum, MaxNum, TRUE, "c1")
              @@ [branch_from_thought |-> MaxNum, branch_id |-> "x"],
          Req("a", MaxNum, MaxNum, TRUE, "c1") @@ [branch_id |-> "x"],
          Req("a", MaxNum, MaxNum, TRUE, "c1") @@ [branch_from_thought |-> 1],
          Req("a", 1, MaxNum, TRUE, "c2") @@ [branch_id |-> ""],
          Req("b", 1, MaxNum, TRUE, "c1") @@ [branch_from_thought |-> 1, branch_id |-> "x"]}

\* the calls of the specification SpecBranch: a main chain with branches
InputsBranch == {Req("a", 1, MaxNum, TRUE, "c1")} \cup BranchInputs

\* the calls of the specification SpecKey: session and branch ids that hold
\* the separators of the document id
InputsKey ==
    {Req(s, n, MaxNum, TRUE, "c1") @@ Opt(b # None, "branch_id", b) :
        s \in {"a", "a_1_branch_x"}, n \in {1, 2}, b \in {None, "x_2"}}

\* thoughts that carry a session summary, the last with the key thoughts
Summaries == {"s1", "s2"}
KeyLists == {<<1, MaxNum>>, <<MaxNum, 1>>}

SummaryInputs ==
    {Req("a", 1, MaxNum, TRUE, "c1") @@ [session_summary |-> "s1"],
     Req("a", 2, MaxNum, TRUE, "c1") @@ [session_summary |-> "s2"]}
    \cup {Req("a", MaxNum, MaxNum, FALSE, "c2")
              @@ [session_summary |-> "s2", key_thoughts |-> k] : k \in KeyLists}

\* the calls of the specification SpecSummary: a main chain with summaries
InputsSummary == {Req("a", 1, MaxNum, TRUE, "c1")} \cup SummaryInputs

\* the calls of the specification SpecConcurrent: thoughts of one session,
\* two of them with the same number
InputsConcurrent ==
    {Req("a", 1, MaxNum, TRUE, c) : c \in Contents}
        \cup {Req("a", 2, MaxNum, TRUE, "c1") @@ [session_summary |-> "s1"]}

\* the calls of the specification SpecRead: a main chain and a branch of one
\* session, the other session stays without thoughts
InputsRead ==
    {Req("a", n, MaxNum, TRUE, "c1") : n \in Nums}
        \cup {Req("a", 1, MaxNum, TRUE, "c2") @@ [branch_from_thought |-> 1, branch_id |-> "x"]}

\* the calls of the specification SpecChain: main chains that are open and
\* closed, and branches with the highest number and an empty branch id
InputsChain ==
    {Req("a", 1, MaxNum, TRUE, "c1"), Req("a", 2, MaxNum, FALSE, "c1"),
     Req("a", MaxNum, MaxNum, FALSE, "c2"), Req("b", 1, MaxNum, TRUE, "c1"),
     Req("a", MaxNum, MaxNum, TRUE, "c1") @@ [branch_from_thought |-> 1, branch_id |-> "x"],
     Req("a", 1, MaxNum, TRUE, "c2") @@ [branch_id |-> ""]}

\* the arguments of update_documents and delete_documents: no id, the id of
\* a stored thought, an id that is not stored; no list, an empty list, a list
\* of the length of ids, a longer list
IdLists == {<<>>, <<"a_1">>, <<"a_2">>, <<"zz">>}
MetadataLists == {<<>>, <<[next_thought_needed |-> FALSE]>>}
DocumentLists == {<<>>, <<"c2">>, <<"c1", "c2">>}

UpdateArgs ==
    {[ids |-> ids] : ids \in IdLists}
        \cup {[ids |-> ids, metadatas |-> metadatas] :
                  ids \in IdLists, metadatas \in MetadataLists}
        \cup {[ids |-> ids, documents |-> documents] :
                  ids \in IdLists, documents \in DocumentLists}
        \cup {[ids |-> ids, metadatas |-> metadatas, documents |-> documents] :
                  ids \in IdLists, metadatas \in MetadataLists, documents \in DocumentLists}

\* the arguments of get_similar_sessions: distances are in hundredths
\* and one content is near the query text, the other far from it
SessionTypes == {None, "other"}
Counts == {NoneInt, 1, 2}
Queries == {None, "q"}
NResults == {0, 1, 5}
Distances == {[c \in Contents |-> IF c = near THEN 20 ELSE 90] : near \in Contents}

\* the arguments of continue_thought_chain
AnalysisTypes == {"continuation", "completion", "branching", "other"}

----------------------------------------------------------------------------
(* State machine *)

NoResult == [op |-> "none"]

\* the concurrent requests, and a request that runs no call
Procs == {"p1", "p2"}
Idle == [pc |-> "idle"]

Init ==
    /\ exists = FALSE
    /\ docs = <<>>
    /\ clock = 1
    /\ res = NoResult
    /\ procs = [p \in Procs |-> Idle]

\* ChromaConnector.sequential_thinking(**inp); the result says "stored"
\* whether or not the add took effect, and an error of the add is raised again
SequentialThinking(inp, uuid4, branch8, duplicate) ==
    LET session_id == SessionOf(inp, uuid4)
        branch_id == BranchOf(inp, branch8)
        doc_id == DocId(session_id, inp.thought_number, branch_id,
                        GetOr(inp, "is_revision", FALSE), clock)
        metadata == Metadata(inp, session_id, branch_id, clock)
    IN  /\ doc_id \in Ids(docs) \/ Len(docs) < MaxDocs
        /\ exists' = TRUE
        /\ docs' = CollectionAdd(docs, doc_id, inp.thought, metadata)
        /\ res' = [op |-> "sequential_thinking", args |-> inp,
                   out |-> IF doc_id \in Ids(docs) /\ duplicate = "rejected"
                           THEN Raised("Failed to store sequential thought")
                           ELSE [session_id |-> session_id, document_id |-> doc_id,
                                 thought_number |-> inp.thought_number,
                                 branch_id |-> branch_id, status |-> "stored",
                                 collection |-> CollectionName, metadata |-> metadata]]
        /\ UNCHANGED <<clock, procs>>

\* a fresh value of uuid.uuid4(): no session / branch of the store has it
FreshSession(u) == \A i \in 1..Len(docs) : docs[i].metadata.session_id # u
FreshBranch(b) == \A i \in 1..Len(docs) : GetStr(docs[i].metadata, "branch_id") # b

Submit ==
    \E inp \in Inputs, uuid4 \in Uuids, branch8 \in BranchUuids,
       duplicate \in DuplicateOutcomes :
        /\ FreshSession(uuid4)
        /\ FreshBranch(branch8)
        /\ SequentialThinking(inp, uuid4, branch8, duplicate)

SubmitBranch ==
    \E inp \in InputsBranch, uuid4 \in Uuids, branch8 \in BranchUuids,
       duplicate \in DuplicateOutcomes :
        /\ FreshSession(uuid4)
        /\ FreshBranch(branch8)
        /\ SequentialThinking(inp, uuid4, branch8, duplicate)

SubmitLoose ==
    \E inp \in InputsLoose, uuid4 \in Uuids, branch8 \in BranchUuids,
       duplicate \in DuplicateOutcomes :
        /\ FreshSession(uuid4)
        /\ FreshBranch(branch8)
        /\ SequentialThinking(inp, uuid4, branch8, duplicate)

SubmitRevision ==
    \E inp \in InputsRevision, uuid4 \in Uuids, branch8 \in BranchUuids,
       duplicate \in DuplicateOutcomes :
        /\ FreshSession(uuid4)
        /\ FreshBranch(branch8)
        /\ SequentialThinking(inp, uuid4, branch8, duplicate)

SubmitKey ==
    \E inp \in InputsKey, uuid4 \in Uuids, branch8 \in BranchUuids,
       duplicate \in DuplicateOutcomes :
        /\ FreshSession(uuid4)
        /\ FreshBranch(branch8)
        /\ SequentialThinking(inp, uuid4, branch8, duplicate)

\* time passes
Tick ==
    /\ clock < MaxClock
    /\ clock' = clock + 1
    /\ UNCHANGED <<exists, docs, res, procs>>

\* the sessions and the filters the reads are called with
ReadSessions == SessionIds
Filters == {NoneInt} \cup Nums

GetThoughtHistory ==
    \E session_id \in ReadSessions, include_branches \in BOOLEAN, sort_by_number \in BOOLEAN :
        /\ res' = [op |-> "get_thought_history",
                   out |-> get_thought_history(exists, docs, session_id,
                                               include_branches, sort_by_number)]
        /\ exists' = GetCollection(exists)
        /\ UNCHANGED <<docs, clock, procs>>

GetThoughtBranches ==
    \E session_id \in ReadSessions, thought_number \in Filters :
        /\ res' = [op |-> "get_thought_branches",
                   out |-> get_thought_branches(exists, docs, session_id, thought_number)]
        /\ exists' = GetCollection(exists)
        /\ UNCHANGED <<docs, clock, procs>>

SubmitSummary ==
    \E inp \in InputsSummary, uuid4 \in Uuids, branch8 \in BranchUuids,
       duplicate \in DuplicateOutcomes :
        /\ FreshSession(uuid4)
        /\ FreshBranch(branch8)
        /\ SequentialThinking(inp, uuid4, branch8, duplicate)

SubmitRead ==
    \E inp \in InputsRead, uuid4 \in Uuids, branch8 \in BranchUuids,
       duplicate \in DuplicateOutcomes :
        /\ FreshSession(uuid4)
        /\ FreshBranch(branch8)
        /\ SequentialThinking(inp, uuid4, branch8, duplicate)

SubmitChain ==
    \E inp \in InputsChain, uuid4 \in Uuids, branch8 \in BranchUuids,
       duplicate \in DuplicateOutcomes :
        /\ FreshSession(uuid4)
        /\ FreshBranch(branch8)
        /\ SequentialThinking(inp, uuid4, branch8, duplicate)

UpdateDocuments ==
    \E args \in UpdateArgs :
        LET out == update_documents(exists, docs, args)
        IN  /\ res' = [op |-> "update_documents", args |-> args, out |-> out]
            /\ docs' = IF IsError(out) THEN docs ELSE CollectionUpdate(docs, args)
            /\ UNCHANGED <<exists, clock, procs>>

DeleteDocuments ==
    \E ids \in IdLists :
        LET out == delete_documents(exists, docs, ids)
        IN  /\ res' = [op |-> "delete_documents", args |-> [ids |-> ids], out |-> out]
            /\ docs' = IF IsError(out) THEN docs ELSE CollectionDelete(docs, ids)
            /\ UNCHANGED <<exists, clock, procs>>

GetSimilarSessions ==
    \E session_type \in SessionTypes, min_thought_count \in Counts,
       max_thought_count \in Counts, query_text \in Queries, n_results \in NResults,
       distance \in Distances :
        /\ res' = [op |-> "get_similar_sessions",
                   out |-> get_similar_sessions(exists, docs, session_type,
                                                min_thought_count, max_thought_count,
                                                query_text, n_results, distance)]
        /\ exists' = GetCollection(exists)
        /\ UNCHANGED <<docs, clock, procs>>

ContinueThoughtChain ==
    \E session_id \in ReadSessions, analysis_type \in AnalysisTypes :
        /\ res' = [op |-> "continue_thought_chain",
                   out |-> continue_thought_chain(exists, docs, session_id, analysis_type)]
        /\ exists' = GetCollection(exists)
        /\ UNCHANGED <<docs, clock, procs>>

\* a request starts sequential_thinking(**inp): the defaults of session_id
\* and branch_id
Begin ==
    \E p \in Procs, inp \in InputsConcurrent, uuid4 \in Uuids, branch8 \in BranchUuids :
        /\ procs[p].pc = "idle"
        /\ FreshSession(uuid4)
        /\ FreshBranch(branch8)
        /\ procs' = [procs EXCEPT ![p] = [pc |-> "get", args |-> inp,
                                          session_id |-> SessionOf(inp, uuid4),
                                          branch_id |-> BranchOf(inp, branch8)]]
        /\ UNCHANGED <<exists, docs, clock, res>>

\* client.get_collection(collection_name), which fails when it is missing
OpenCollection ==
    \E p \in Procs :
        /\ procs[p].pc = "get"
        /\ procs' = [procs EXCEPT ![p].pc = IF exists THEN "add" ELSE "create"]
        /\ UNCHANGED <<exists, docs, clock, res>>

\* client.create_collection(collection_name), which fails when it exists
CreateCollection ==
    \E p \in Procs :
        /\ procs[p].pc = "create"
        /\ exists' = TRUE
        /\ procs' = [procs EXCEPT ![p] =
                        IF exists
                        THEN [pc |-> "done", args |-> procs[p].args,
                              out |-> Raised("Failed to store sequential thought")]
                        ELSE [procs[p] EXCEPT !.pc = "add"]]
        /\ UNCHANGED <<docs, clock, res>>

\* the document id, the metadata and collection.add; the call returns
AddThought ==
    \E p \in Procs, duplicate \in DuplicateOutcomes :
        LET inp == procs[p].args
            session_id == procs[p].session_id
            branch_id == procs[p].branch_id
            doc_id == DocId(session_id, inp.thought_number, branch_id,
                            GetOr(inp, "is_revision", FALSE), clock)
            metadata == Metadata(inp, session_id, branch_id, clock)
        IN  /\ procs[p].pc = "add"
            /\ doc_id \in Ids(docs) \/ Len(docs) < MaxDocs
            /\ docs' = CollectionAdd(docs, doc_id, inp.thought, metadata)
            /\ procs' = [procs EXCEPT ![p] =
                            [pc |-> "done", args |-> inp,
                             out |-> IF doc_id \in Ids(docs) /\ duplicate = "rejected"
                                     THEN Raised("Failed to store sequential thought")
                                     ELSE [session_id |-> session_id, document_id |-> doc_id,
                                           thought_number |-> inp.thought_number,
                                           branch_id |-> branch_id, status |-> "stored",
                                           collection |-> CollectionName,
                                           metadata |-> metadata]]]
            /\ UNCHANGED <<exists, clock, res>>

\* The store becomes unavailable during a call: from the store call
\* down_from on, every store call of the handler raises.
WriteCalls == {"get_collection", "create_collection", "add"}
ReadCalls == {"get_collection", "get"}

\* sequential_thinking with the store going down: a failure of get_collection
\* leads to create_collection (bare except), any other failure is raised again
SubmitUnavailable ==
    \E inp \in InputsRead, down_from \in WriteCalls, duplicate \in DuplicateOutcomes :
        LET session_id == SessionOf(inp, "u1")
            branch_id == BranchOf(inp, "b1")
            doc_id == DocId(session_id, inp.thought_number, branch_id,
                            GetOr(inp, "is_revision", FALSE), clock)
            metadata == Metadata(inp, session_id, branch_id, clock)
            found == exists /\ down_from # "get_collection"
            created == ~found /\ ~exists /\ down_from = "add"
            failed == IF ~found THEN TRUE ELSE down_from = "add"
        IN  /\ doc_id \in Ids(docs) \/ Len(docs) < MaxDocs
            /\ exists' = (exists \/ created)
            /\ docs' = IF failed THEN docs ELSE CollectionAdd(docs, doc_id, inp.thought, metadata)
            /\ res' = [op |-> "sequential_thinking", args |-> inp, failed |-> failed,
                       out |-> IF failed \/ (doc_id \in Ids(docs) /\ duplicate = "rejected")
                               THEN Raised("Failed to store sequential thought")
                               ELSE [session_id |-> session_id, document_id |-> doc_id,
                                     thought_number |-> inp.thought_number,
                                     branch_id |-> branch_id, status |-> "stored",
                                     collection |-> CollectionName, metadata |-> metadata]]
            /\ UNCHANGED <<clock, procs>>

\* get_thought_history with the store going down: a failure of get_collection
\* is taken for a missing collection (bare except), one of collection.get is
\* raised again
HistoryUnavailable ==
    \E session_id \in ReadSessions, include_branches \in BOOLEAN, down_from \in ReadCalls :
        LET found == exists /\ down_from # "get_collection"
        IN  /\ res' = [op |-> "get_thought_history", failed |-> (exists \/ down_from = "get_collection"),
                       out |-> IF ~found
                               THEN get_thought_history(FALSE, docs, session_id,
                                                        include_branches, TRUE)
                               ELSE Raised("Failed to get thought history")]
            /\ UNCHANGED <<exists, docs, clock, procs>>

BranchesUnavailable ==
    \E session_id \in ReadSessions, thought_number \in Filters, down_from \in ReadCalls :
        LET found == exists /\ down_from # "get_collection"
        IN  /\ res' = [op |-> "get_thought_branches", failed |-> (exists \/ down_from = "get_collection"),
                       out |-> IF ~found
                               THEN get_thought_branches(FALSE, docs, session_id,
                                                         thought_number)
                               ELSE Raised("Failed to get thought branches")]
            /\ UNCHANGED <<exists, docs, clock, procs>>

SimilarUnavailable ==
    \E query_text \in Queries, n_results \in NResults, distance \in Distances,
       down_from \in ReadCalls :
        LET found == exists /\ down_from # "get_collection"
        IN  /\ res' = [op |-> "get_similar_sessions", failed |-> (exists \/ down_from = "get_collection"),
                       out |-> IF ~found
                               THEN get_similar_sessions(FALSE, docs, None, NoneInt, NoneInt,
                                                         query_text, n_results, distance)
                               ELSE Raised("Failed to get similar sessions")]
            /\ UNCHANGED <<exists, docs, clock, procs>>

Next == Submit \/ Tick \/ GetThoughtHistory \/ GetThoughtBranches

Spec == Init /\ [][Next]_vars

NextBranch == SubmitBranch \/ Tick \/ GetThoughtHistory \/ GetThoughtBranches

SpecBranch == Init /\ [][NextBranch]_vars

NextLoose == SubmitLoose \/ Tick \/ GetThoughtHistory \/ GetThoughtBranches

SpecLoose == Init /\ [][NextLoose]_vars

NextRevision == SubmitRevision \/ Tick \/ GetThoughtHistory \/ GetThoughtBranches

SpecRevision == Init /\ [][NextRevision]_vars

NextKey == SubmitKey \/ Tick \/ GetThoughtHistory \/ GetThoughtBranches

SpecKey == Init /\ [][NextKey]_vars

NextSummary == SubmitSummary \/ Tick \/ GetThoughtHistory \/ GetThoughtBranches

SpecSummary == Init /\ [][NextSummary]_vars

NextSimilar == Submit \/ GetSimilarSessions

SpecSimilar == Init /\ [][NextSimilar]_vars

NextRead ==
    \/ SubmitRead
    \/ GetThoughtHistory
    \/ GetThoughtBranches
    \/ ContinueThoughtChain
    \/ GetSimilarSessions

SpecRead == Init /\ [][NextRead]_vars

NextConcurrent == Begin \/ OpenCollection \/ CreateCollection \/ AddThought \/ Tick

SpecConcurrent == Init /\ [][NextConcurrent]_vars

NextUnavailable ==
    \/ SubmitRead
    \/ SubmitUnavailable
    \/ HistoryUnavailable
    \/ BranchesUnavailable
    \/ SimilarUnavailable

SpecUnavailable == Init /\ [][NextUnavailable]_vars

NextChain == SubmitChain \/ Tick \/ ContinueThoughtChain

SpecChain == Init /\ [][NextChain]_vars

NextDocs == SubmitRead \/ UpdateDocuments \/ DeleteDocuments

SpecDocs == Init /\ [][NextDocs]_vars

----------------------------------------------------------------------------
(* Properties *)

\* the step is a call of the connector method op
Called(op) == res' # res /\ res'.op = op

\* the step is a call of sequential_thinking that returned a result
Stored == Called("sequential_thinking") /\ ~IsError(res'.out)

\* the documents of a session, in insertion order
SessionDocs(coll, session_id) == CollectionGet(coll, [session_id |-> session_id])

MainChain(doc) == ~Truthy(GetStr(doc.metadata, "branch_id"))

IsRevision(doc) == GetOr(doc.metadata, "is_revision", FALSE)

\* the thoughts of the session's history at number n outside any branch
HistoryAt(has, coll, session_id, n) ==
    SelectSeq(get_thought_history(has, coll, session_id, TRUE, TRUE).thoughts,
              LAMBDA t : t.thought_number = n /\ ~Truthy(t.branch_id))

\* C1: every stored thought has total_thoughts >= thought_number (a total
\* below the number is raised to the number when the thought is stored).
C1_TotalCoversNumber ==
    \A i \in 1..Len(docs) :
        docs[i].metadata.total_thoughts >= docs[i].metadata.thought_number

\* an empty session id, a thought number or a total that is not positive
Malformed(inp) ==
    \/ Has(inp, "session_id") /\ inp.session_id = ""
    \/ inp.thought_number <= 0
    \/ inp.total_thoughts <= 0

\* C2: a call of sequential_thinking with a malformed required field raises
\* and leaves the store (collection and documents) as it was.
C2_MalformedRejected ==
    [][(Called("sequential_thinking") /\ Malformed(res'.args))
        => (IsError(res'.out) /\ docs' = docs /\ exists' = exists)]_vars

\* a call that names neither a branch nor a revision
PlainCall(inp) ==
    /\ ~Has(inp, "branch_id") /\ ~Has(inp, "branch_from_thought")
    /\ ~GetOr(inp, "is_revision", FALSE)

\* C3: when a plain thought is submitted again under the (session, number) of
\* a stored plain thought, the history holds exactly one plain thought at
\* that number and it carries the content of the later submission.
C3_LaterSubmissionOverwrites ==
    [][(Stored /\ PlainCall(res'.args) /\ res'.out.document_id \in Ids(docs))
        => LET at == SelectSeq(HistoryAt(exists', docs', res'.out.session_id,
                                         res'.args.thought_number),
                               LAMBDA t : ~t.is_revision)
           IN  Len(at) = 1 /\ at[1].content = res'.args.thought]_vars

\* C4: after a revision of thought n is stored in a main chain that holds a
\* thought n, the history shows exactly one thought at n of that chain,
\* with the content of that revision.
C4_RevisionReplaces ==
    [][(/\ Stored
        /\ GetOr(res'.args, "is_revision", FALSE) /\ ~Has(res'.args, "branch_id")
        /\ HistoryAt(exists, docs, res'.out.session_id, res'.args.thought_number) # <<>>)
        => LET at == HistoryAt(exists', docs', res'.out.session_id,
                               res'.args.thought_number)
           IN  Len(at) = 1 /\ at[1].content = res'.args.thought]_vars

\* (session_id, thought_number, branch_id-or-none) of a stored document
Triple(doc) ==
    <<doc.metadata.session_id, doc.metadata.thought_number,
      IF MainChain(doc) THEN None ELSE doc.metadata.branch_id>>

\* C5: the document id is unique per (session_id, thought_number,
\* branch_id-or-none): a thought that is not a revision gets the id of a stored
\* thought that is not a revision only if their triples are equal.
C5_KeyInjective ==
    [][(Stored /\ ~GetOr(res'.args, "is_revision", FALSE))
        => \A i \in 1..Len(docs) :
              (docs[i].id = res'.out.document_id /\ ~IsRevision(docs[i]))
              => Triple(docs[i]) =
                    <<res'.out.session_id, res'.args.thought_number,
                      IF Truthy(res'.out.branch_id) THEN res'.out.branch_id ELSE None>>]_vars

\* the thought numbers of a list of documents
Numbers(list) == {list[i].metadata.thought_number : i \in 1..Len(list)}

\* the session holds main-chain thoughts only, with pairwise distinct numbers
DistinctMain(coll, session_id) ==
    LET own == SessionDocs(coll, session_id)
    IN  /\ \A i \in 1..Len(own) : MainChain(own[i])
        /\ \A i, j \in 1..Len(own) :
              own[i].metadata.thought_number = own[j].metadata.thought_number => i = j

\* the sorted history lists each document of the session once, by ascending number
ListedAscending(has, coll, session_id) ==
    LET h == get_thought_history(has, coll, session_id, TRUE, TRUE).thoughts
        own == SessionDocs(coll, session_id)
    IN  /\ Len(h) = Len(own)
        /\ {h[i].document_id : i \in 1..Len(h)} = Ids(own)
        /\ \A i, j \in 1..Len(h) : i < j => h[i].thought_number < h[j].thought_number

\* C6: a session that was given main-chain thoughts with pairwise distinct
\* numbers, in any order and with gaps, has a sorted history of exactly those
\* thoughts, one entry each, in ascending number order: each stored call with
\* a new number adds its thought to the history and keeps it ascending.
C6_HistoryListsEachThoughtAscending ==
    [][/\ docs' # docs
            => \A s \in ReadSessions :
                  DistinctMain(docs', s) => ListedAscending(exists', docs', s)
       /\ (/\ Stored
           /\ ~Has(res'.args, "branch_id") /\ ~Has(res'.args, "branch_from_thought")
           /\ DistinctMain(docs, res'.out.session_id)
           /\ res'.args.thought_number
                 \notin Numbers(SessionDocs(docs, res'.out.session_id)))
          => LET h == get_thought_history(exists', docs', res'.out.session_id,
                                          TRUE, TRUE).thoughts
             IN  /\ DistinctMain(docs', res'.out.session_id)
                 /\ Len(h) = Len(SessionDocs(docs, res'.out.session_id)) + 1
                 /\ \E i \in 1..Len(h) :
                       /\ h[i].thought_number = res'.args.thought_number
                       /\ h[i].content = res'.args.thought
                       /\ h[i].document_id = res'.out.document_id]_vars

\* thoughts 3 and 1 were stored in this order and the history lists 1 then 3
C6_Witness ==
    /\ res.op = "get_thought_history" /\ Has(res.out, "total_thoughts")
    /\ Len(docs) = 2
    /\ docs[1].metadata.session_id = res.out.session_id
    /\ docs[2].metadata.session_id = res.out.session_id
    /\ docs[1].metadata.thought_number = 3 /\ docs[2].metadata.thought_number = 1
    /\ Len(res.out.thoughts) = 2
    /\ res.out.thoughts[1].thought_number = 1 /\ res.out.thoughts[2].thought_number = 3

\* the document ids of a list of thoughts
DocumentIds(thoughts) == {thoughts[i].document_id : i \in 1..Len(thoughts)}

HistoryThoughts(session_id, include_branches, sort_by_number) ==
    get_thought_history(exists, docs, session_id, include_branches, sort_by_number).thoughts

\* C7 as stated: for every session that has thoughts, in every state, the
\* history without branches is a strict subset of the history with branches.
C7_StrictSubset ==
    \A s \in ReadSessions :
        SessionDocs(docs, s) # <<>> =>
        /\ DocumentIds(HistoryThoughts(s, FALSE, TRUE))
              \subseteq DocumentIds(HistoryThoughts(s, TRUE, TRUE))
        /\ DocumentIds(HistoryThoughts(s, FALSE, TRUE))
              # DocumentIds(HistoryThoughts(s, TRUE, TRUE))

\* C7: the history without branches is the history with branches less exactly
\* the thoughts that carry a non-empty branch_id, in the same order; it is a
\* strict subset if and only if the session has such a thought.
C7_ExcludesExactlyBranches ==
    \A s \in ReadSessions, sorted \in BOOLEAN :
        LET with == HistoryThoughts(s, TRUE, sorted)
            without == HistoryThoughts(s, FALSE, sorted)
            branched == {j \in 1..Len(docs) :
                            docs[j].metadata.session_id = s /\ ~MainChain(docs[j])}
        IN  /\ without = SelectSeq(with, LAMBDA t : ~Truthy(t.branch_id))
            /\ DocumentIds(without) \subseteq DocumentIds(with)
            /\ DocumentIds(with) \ DocumentIds(without) = {docs[i].id : i \in branched}
            /\ (DocumentIds(without) # DocumentIds(with)) <=> branched # {}

\* a session holds a branch thought and a thought with an empty branch id,
\* and the history without branches returned the second alone
C7_Witness ==
    /\ res.op = "get_thought_history" /\ Has(res.out, "total_thoughts")
    /\ Len(docs) = 2
    /\ \A i \in 1..2 : docs[i].metadata.session_id = res.out.session_id
    /\ \E i \in 1..2 : ~MainChain(docs[i])
    /\ \E i \in 1..2 : GetStr(docs[i].metadata, "branch_id") = ""
    /\ Len(res.out.thoughts) = 1
    /\ res.out.thoughts[1].branch_id = ""

Branches(session_id) == get_thought_branches(exists, docs, session_id, NoneInt).branches

\* the groups of the result that hold the document
GroupsOf(branches, doc) ==
    {i \in 1..Len(branches) : doc.id \in DocumentIds(branches[i].thoughts)}

\* C8 as stated: every branch thought of the session is in exactly one group,
\* that of its branch_id, which reports the branch_from_thought the thought
\* was submitted with; a thought without a branch_id is in no group.
C8_GroupReportsOwnParent ==
    \A s \in ReadSessions : \A i \in 1..Len(docs) :
        docs[i].metadata.session_id = s =>
            LET groups == GroupsOf(Branches(s), docs[i])
            IN  IF MainChain(docs[i]) THEN groups = {}
                ELSE /\ Cardinality(groups) = 1
                     /\ \A g \in groups :
                          /\ Branches(s)[g].branch_id = docs[i].metadata.branch_id
                          /\ Branches(s)[g].branch_from_thought
                                = GetInt(docs[i].metadata, "branch_from_thought")

\* the first stored document of the session's branch
FirstOfBranch(session_id, branch_id) ==
    docs[CHOOSE i \in 1..Len(docs) :
            /\ docs[i].metadata.session_id = session_id
            /\ GetStr(docs[i].metadata, "branch_id") = branch_id
            /\ \A j \in 1..(i - 1) :
                  ~(/\ docs[j].metadata.session_id = session_id
                    /\ GetStr(docs[j].metadata, "branch_id") = branch_id)]

\* C8: every branch thought of the session is in exactly one group, that of
\* its branch_id, which reports the branch_from_thought of the first stored
\* thought of that branch; a thought without a branch_id is in no group.
C8_GroupReportsFirstParent ==
    \A s \in ReadSessions : \A i \in 1..Len(docs) :
        docs[i].metadata.session_id = s =>
            LET groups == GroupsOf(Branches(s), docs[i])
            IN  IF MainChain(docs[i]) THEN groups = {}
                ELSE /\ Cardinality(groups) = 1
                     /\ \A g \in groups :
                          /\ Branches(s)[g].branch_id = docs[i].metadata.branch_id
                          /\ Branches(s)[g].branch_from_thought
                                = GetInt(FirstOfBranch(s, docs[i].metadata.branch_id).metadata,
                                         "branch_from_thought")

\* get_thought_branches returned one branch of two thoughts that were
\* submitted with different parents
C8_Witness ==
    /\ res.op = "get_thought_branches" /\ Has(res.out, "total_branches")
    /\ res.out.total_branches = 1
    /\ Len(res.out.branches[1].thoughts) = 2
    /\ \E i, j \in 1..Len(docs) :
          /\ {docs[i].id, docs[j].id} = DocumentIds(res.out.branches[1].thoughts)
          /\ GetInt(docs[i].metadata, "branch_from_thought")
                # GetInt(docs[j].metadata, "branch_from_thought")

\* C9: a result of get_thought_branches holds a branch_tree keyed by
\* branch_from_thought, and every returned branch is listed under exactly the
\* key equal to its branch_from_thought (so two branches started from one
\* parent are both under that parent's key).
C9_BranchTree ==
    (res.op = "get_thought_branches" /\ Has(res.out, "total_branches"))
        => /\ Has(res.out, "branch_tree")
           /\ \A i \in 1..Len(res.out.branches) :
                \A k \in DOMAIN res.out.branch_tree :
                    (\E j \in 1..Len(res.out.branch_tree[k]) :
                        res.out.branch_tree[k][j] = res.out.branches[i])
                    <=> k = res.out.branches[i].branch_from_thought

\* C10: get_thought_branches with thought_number = k succeeds and groups
\* exactly the session's thoughts with a non-empty branch_id and
\* branch_from_thought = k.
C10_FilterByParent ==
    \A s \in ReadSessions : \A k \in Nums :
        LET out == get_thought_branches(exists, docs, s, k)
        IN  /\ ~IsError(out)
            /\ UNION {DocumentIds(out.branches[i].thoughts) : i \in 1..Len(out.branches)}
                  = {docs[i].id : i \in {j \in 1..Len(docs) :
                        /\ docs[j].metadata.session_id = s
                        /\ ~MainChain(docs[j])
                        /\ GetInt(docs[j].metadata, "branch_from_thought") = k}}

\* the stored thoughts of a session that carry a session summary
SummaryDocs(coll, session_id) ==
    SelectSeq(SessionDocs(coll, session_id), LAMBDA d : Has(d.metadata, "session_summary"))

\* C11: the summary of a session carries a version that is the number of
\* submissions that supplied a summary so far (1 after the first, one more
\* after each later one), and the created_ts of the first of them.
C11_SummaryVersioned ==
    \A s \in ReadSessions :
        LET summaries == SummaryDocs(docs, s)
            latest == summaries[Len(summaries)].metadata
        IN  summaries # <<>> =>
            /\ Has(latest, "version")
            /\ latest.version = Len(summaries)
            /\ Has(latest, "created_ts")
            /\ latest.created_ts = summaries[1].metadata.timestamp

\* the entry of the session's history for a document id
HistoryEntry(coll, session_id, document_id) ==
    SelectSeq(get_thought_history(TRUE, coll, session_id, TRUE, TRUE).thoughts,
              LAMBDA t : t.document_id = document_id)

\* C12: a list of key thoughts stored with a thought is read back through the
\* history as the same list, a native list and not its encoded string.
C12_KeyThoughtsRoundTrip ==
    [][Stored /\ docs' # docs /\ Has(res'.args, "key_thoughts") =>
        LET read == HistoryEntry(docs', res'.out.session_id, res'.out.document_id)
        IN  /\ Len(read) = 1
            /\ Has(read[1].metadata, "key_thoughts")
            /\ PyType("key_thoughts") = "list"
            /\ read[1].metadata.key_thoughts = res'.args.key_thoughts]_vars

\* the largest thought number stored for a session
HighWater(coll, session_id) ==
    LET numbers == Numbers(SessionDocs(coll, session_id))
    IN  IF numbers = {} THEN 0 ELSE CHOOSE n \in numbers : \A m \in numbers : m <= n

\* C13: the thought count reported for a session is the largest thought
\* number submitted to it, not the number of stored documents.
C13_CountIsHighWater ==
    \A s \in ReadSessions :
        SessionDocs(docs, s) # <<>> =>
            get_thought_history(exists, docs, s, TRUE, TRUE).total_thoughts
                = HighWater(docs, s)

\* the entry get_similar_sessions reports for a session, on a plain fetch
\* without filters
ReportedSession(has, coll, session_id) ==
    SelectSeq(get_similar_sessions(has, coll, None, NoneInt, NoneInt, None,
                                   Len(coll), [c \in Contents |-> 0]).sessions,
              LAMBDA x : x.session_id = session_id)

\* C14: after a thought is stored, the total_thoughts that
\* get_similar_sessions reports for its session is the total_thoughts of that
\* thought, the most recently submitted one.
C14_TotalIsLatest ==
    [][Stored /\ docs' # docs =>
        LET reported == ReportedSession(exists', docs', res'.out.session_id)
        IN  /\ Len(reported) = 1
            /\ reported[1].total_thoughts = res'.args.total_thoughts]_vars

\* every concurrent request has returned from a call that reported success
AllReturned ==
    \A p \in Procs : procs[p].pc = "done" /\ ~IsError(procs[p].out)

\* C15: once concurrent submissions to one session have all returned
\* success, the session reflects each of them: the history holds the thought
\* of every submission, with its content.
C15_NoSubmissionLost ==
    AllReturned =>
        \A p \in Procs :
            \E i \in 1..Len(docs) :
                /\ docs[i].metadata.session_id = procs[p].out.session_id
                /\ docs[i].metadata.thought_number = procs[p].args.thought_number
                /\ docs[i].document = procs[p].args.thought

\* the documents among the sessions of a result of get_similar_sessions
ReturnedContents(out) ==
    UNION {{out.sessions[i].thoughts[j].content : j \in 1..Len(out.sessions[i].thoughts)} :
              i \in 1..Len(out.sessions)}

WithinCounts(n, min_thought_count, max_thought_count) ==
    /\ min_thought_count # NoneInt => min_thought_count <= n
    /\ max_thought_count # NoneInt => n <= max_thought_count

\* C17: with or without a query text, get_similar_sessions returns a session
\* only if its aggregate thought count (the high-water mark of its thought
\* numbers) is within min_thought_count and max_thought_count.
C17_CountFiltersOnAggregate ==
    \A session_type \in SessionTypes, min_thought_count \in Counts,
       max_thought_count \in Counts, query_text \in Queries, n_results \in NResults,
       distance \in Distances :
        LET out == get_similar_sessions(exists, docs, session_type, min_thought_count,
                                        max_thought_count, query_text, n_results, distance)
        IN  ~IsError(out) =>
            \A i \in 1..Len(out.sessions) :
                WithinCounts(HighWater(docs, out.sessions[i].session_id),
                             min_thought_count, max_thought_count)

\* the sessions of a plain fetch: as returned for n_results, and all that
\* pass the filters
PlainSessions(session_type, min_thought_count, max_thought_count, n_results) ==
    get_similar_sessions(exists, docs, session_type, min_thought_count,
                         max_thought_count, None, n_results,
                         [c \in Contents |-> 0]).sessions

EmptyResult(out, list) == ~IsError(out) /\ out[list] = <<>>

\* C19: when the collection is missing, or holds no thought for the session
\* (for get_similar_sessions: no thought that matches), each read returns a
\* result with an empty list and raises nothing.
C19_AbsenceIsData ==
    /\ \A s \in ReadSessions :
        ~exists \/ SessionDocs(docs, s) = <<>> =>
            /\ \A include_branches \in BOOLEAN, sort_by_number \in BOOLEAN :
                EmptyResult(get_thought_history(exists, docs, s, include_branches,
                                                sort_by_number), "thoughts")
            /\ \A thought_number \in Filters :
                EmptyResult(get_thought_branches(exists, docs, s, thought_number),
                            "branches")
            /\ \A analysis_type \in AnalysisTypes :
                EmptyResult(continue_thought_chain(exists, docs, s, analysis_type),
                            "suggestions")
    /\ \A session_type \in SessionTypes, min_thought_count \in Counts,
          max_thought_count \in Counts, query_text \in Queries, n_results \in NResults,
          distance \in Distances :
        ~exists \/ CollectionGet(docs, SimilarWhere(session_type)) = <<>> =>
            EmptyResult(get_similar_sessions(exists, docs, session_type,
                                             min_thought_count, max_thought_count,
                                             query_text, n_results, distance),
                        "sessions")

\* the reads; a step of one of them leaves its name in res
ReadOps ==
    {"get_thought_history", "get_thought_branches", "continue_thought_chain",
     "get_similar_sessions"}

\* C20: a step of get_thought_history, get_thought_branches,
\* continue_thought_chain or get_similar_sessions leaves the store as it is:
\* the collection is not created, and no document is added, changed or
\* deleted.
C20_ReadsLeaveStore ==
    [][res'.op \in ReadOps => exists' = exists /\ docs' = docs]_vars

\* a read was called while the collection was missing, and it is still
\* missing
C20_Witness ==
    /\ ~exists
    /\ res.op \in ReadOps
    /\ Has(res.out, "message") \/ Has(res.out, "analysis")

\* C21: a call during which a store call failed because the store was
\* unavailable ends in an error: it returns neither status "stored" nor an
\* empty result.
C21_StoreFailureSurfaced ==
    Has(res, "failed") /\ res.failed => IsError(res.out)

\* the stored thoughts of a session outside any branch
MainDocs(coll, session_id) == SelectSeq(SessionDocs(coll, session_id), MainChain)

\* the latest main-chain thought of a session is the last thought of its
\* history without branches; it closes the session if it needs no next
\* thought and its number has reached the total
Closed(coll, session_id) ==
    LET thoughts == get_thought_history(TRUE, coll, session_id, FALSE, TRUE).thoughts
        latest == thoughts[Len(thoughts)].metadata
    IN  ~latest.next_thought_needed /\ latest.thought_number >= latest.total_thoughts

\* the entries of the result of a completion analysis
CompletionEntries(coll, session_id) ==
    LET out == continue_thought_chain(TRUE, coll, session_id, "completion")
    IN  {out.suggestions[i] : i \in 1..Len(out.suggestions)}

\* C22: the completion analysis of a session whose latest main-chain thought
\* closes it holds an entry (session complete) that the analysis of a session
\* still open does not hold, and the analysis of an open session holds an
\* entry (add a concluding thought) that the one of a closed session does not.
C22_CompletionDependsOnLatest ==
    \A closed \in ReadSessions, open \in ReadSessions :
        /\ MainDocs(docs, closed) # <<>> /\ Closed(docs, closed)
        /\ MainDocs(docs, open) # <<>> /\ ~Closed(docs, open)
        => /\ CompletionEntries(docs, closed) \ CompletionEntries(docs, open) # {}
           /\ CompletionEntries(docs, open) \ CompletionEntries(docs, closed) # {}

\* the collection without the branch thoughts of a session
WithoutBranches(coll, session_id) ==
    SelectSeq(coll, LAMBDA d : d.metadata.session_id # session_id \/ MainChain(d))

\* C26: for a session with a main-chain thought, last_thought_number is the
\* largest thought number of its main-chain thoughts, and the analysis is the
\* one of the same store without the branch thoughts of the session.
C26_AnalysesLatestMainThought ==
    \A s \in ReadSessions, analysis_type \in AnalysisTypes :
        MainDocs(docs, s) # <<>> =>
            LET out == continue_thought_chain(exists, docs, s, analysis_type)
            IN  /\ ~IsError(out)
                /\ Has(out, "last_thought_number")
                /\ out.last_thought_number \in Numbers(MainDocs(docs, s))
                /\ \A n \in Numbers(MainDocs(docs, s)) : n <= out.last_thought_number
                /\ out = continue_thought_chain(exists, WithoutBranches(docs, s), s,
                                                analysis_type)

\* a session holds a main-chain thought and a branch thought with a higher
\* number, and the analysis names the main-chain thought
C26_Witness ==
    /\ res.op = "continue_thought_chain"
    /\ Has(res.out, "last_thought_number")
    /\ \E i, j \in 1..Len(docs) :
        /\ docs[i].metadata.session_id = res.out.session_id
        /\ docs[j].metadata.session_id = res.out.session_id
        /\ MainChain(docs[i])
        /\ ~MainChain(docs[j])
        /\ docs[i].metadata.thought_number = res.out.last_thought_number
        /\ docs[j].metadata.thought_number > res.out.last_thought_number

\* C23: update_documents and delete_documents with an empty list of ids, and
\* update_documents with no embeddings, metadatas or documents, raise an
\* error and leave every document of the collection as it was.
C23_InvalidArgsChangeNothing ==
    [][/\ res'.op \in {"update_documents", "delete_documents"}
       /\ \/ res'.args.ids = <<>>
          \/ res'.op = "update_documents" /\ DOMAIN res'.args = {"ids"}
       => IsError(res'.out) /\ docs' = docs /\ exists' = exists]_vars

\* delete_documents and update_documents were refused a call on a collection
\* that holds documents
C23_Witness ==
    /\ docs # <<>>
    /\ res.op \in {"update_documents", "delete_documents"}
    /\ res.args.ids = <<>>
    /\ IsError(res.out)

\* the place of a branch id in the order of strings: no branch (the empty
\* string) first, then the branch ids in alphabetical order
BranchRank(branch_id) ==
    IF ~Truthy(branch_id) THEN 0
    ELSE IF branch_id = "b1" THEN 1
    ELSE IF branch_id = "x" THEN 2
    ELSE 3

\* C24: the sorted history is in the order of the key (thought_number,
\* branch_id or empty, timestamp): among thoughts of one number the
\* main-chain thought comes before every branch thought and branch thoughts
\* are in the order of their branch ids, whenever each was submitted.
C24_SortedByNumberBranchTime ==
    \A s \in ReadSessions :
        LET thoughts == HistoryThoughts(s, TRUE, TRUE)
        IN  \A i, j \in 1..Len(thoughts) :
                i < j =>
                    TupleLess(<<thoughts[i].thought_number, BranchRank(thoughts[i].branch_id),
                                thoughts[i].timestamp>>,
                              <<thoughts[j].thought_number, BranchRank(thoughts[j].branch_id),
                                thoughts[j].timestamp + 1>>)

\* C25: for a session that has thoughts, has_branches of the history is true
\* exactly if a thought with a non-empty branch_id is stored for the session,
\* with and without the branches in the history.
C25_HasBranchesSaysBranchesExist ==
    \A s \in ReadSessions, include_branches \in BOOLEAN :
        SessionDocs(docs, s) # <<>> =>
            LET out == get_thought_history(exists, docs, s, include_branches, TRUE)
            IN  /\ Has(out, "has_branches")
                /\ out.has_branches
                       <=> \E i \in 1..Len(docs) :
                               docs[i].metadata.session_id = s /\ ~MainChain(docs[i])

\* two stored thoughts are of the same chain: the same session and the same
\* branch, or both outside any branch
SameChain(d, e) ==
    /\ d.metadata.session_id = e.metadata.session_id
    /\ IF MainChain(d) THEN MainChain(e)
       ELSE ~MainChain(e) /\ d.metadata.branch_id = e.metadata.branch_id

\* C27: every stored revision names in revises_thought a thought number, not
\* above its own, of a thought of its chain that was stored before it.
C27_RevisionNamesEarlierThought ==
    \A i \in 1..Len(docs) :
        IsRevision(docs[i]) =>
            /\ Has(docs[i].metadata, "revises_thought")
            /\ docs[i].metadata.revises_thought <= docs[i].metadata.thought_number
            /\ \E j \in 1..(i - 1) :
                /\ SameChain(docs[i], docs[j])
                /\ docs[j].metadata.thought_number = docs[i].metadata.revises_thought

\* the stored revisions of the thought that a call names
RevisionsOf(coll, args) ==
    SelectSeq(coll, LAMBDA d :
        /\ IsRevision(d)
        /\ d.metadata.session_id = args.session_id
        /\ d.metadata.thought_number = args.thought_number
        /\ MainChain(d))

\* C28: a revision of a thought that already has a stored revision gets a
\* document id of its own, also within the same clock second: the call
\* stores one more document.
C28_RevisionsDistinguishable ==
    [][/\ Called("sequential_thinking")
       /\ GetOr(res'.args, "is_revision", FALSE)
       /\ RevisionsOf(docs, res'.args) # <<>>
       /\ Len(docs) < MaxDocs
       => ~IsError(res'.out) /\ Len(docs') = Len(docs) + 1]_vars

\* the thought of the returned request p is in the store
Persisted(p) ==
    \E i \in 1..Len(docs) :
        /\ docs[i].metadata.session_id = procs[p].args.session_id
        /\ docs[i].metadata.thought_number = procs[p].args.thought_number
        /\ docs[i].document = procs[p].args.thought

\* C29: concurrent submissions of different thoughts to a store without the
\* collection all succeed, whichever of them creates the collection: each
\* returned request reports success and its thought is stored.
C29_LazyCreationSafe ==
    \A p, q \in Procs :
        /\ procs[p].pc = "done"
        /\ procs[q].pc = "done"
        /\ procs[p].args.thought_number # procs[q].args.thought_number
        => ~IsError(procs[p].out) /\ Persisted(p)

\* what the reads of a session return, for every choice of their options
ReadsOf(has, coll, s) ==
    <<[o \in BOOLEAN \X BOOLEAN |-> get_thought_history(has, coll, s, o[1], o[2])],
      [k \in Filters |-> get_thought_branches(has, coll, s, k)]>>

\* a call stored a thought and left every record stored before as it was
OnlyAppends ==
    /\ Len(docs') \in {Len(docs), Len(docs) + 1}
    /\ \A i \in 1..Len(docs) : docs'[i] = docs[i]

\* C30 as stated: a successful sequential_thinking call of session A leaves
\* every thought stored before as it was, and get_thought_history and
\* get_thought_branches of every other session return after the call what
\* they returned before it.
C30_OtherSessionsUntouched ==
    [][Stored =>
        /\ OnlyAppends
        /\ \A s \in ReadSessions \ {res'.out.session_id} :
            ReadsOf(exists', docs', s) = ReadsOf(exists, docs, s)]_vars

\* C30 amended: a successful sequential_thinking call of session A leaves
\* every thought stored before as it was and adds at most one record; for
\* every other session the two reads return after the call what they returned
\* before it when the collection existed before the call, and the call that
\* creates the collection leaves the other session's history without
\* thoughts.
C30_OtherSessionsKeepThoughts ==
    [][Stored =>
        /\ OnlyAppends
        /\ \A s \in ReadSessions \ {res'.out.session_id} :
            IF exists
            THEN ReadsOf(exists', docs', s) = ReadsOf(exists, docs, s)
            ELSE \A o \in BOOLEAN \X BOOLEAN :
                    EmptyResult(get_thought_history(exists', docs', s, o[1], o[2]),
                                "thoughts")]_vars

\* a thought of session a was stored after a thought of session b
C30_Witness ==
    /\ res.op = "sequential_thinking"
    /\ ~IsError(res.out)
    /\ res.out.session_id = "a"
    /\ Len(docs) = 2
    /\ docs[1].metadata.session_id = "b"
    /\ docs[2].id = res.out.document_id

====
